---- MODULE Spec2Model ----
(***************************************************************************)
(* Model of rmf_demos_fleet_adapter/fleet_manager.py: the FleetManager     *)
(* node, its per-robot State records, the HTTP command handlers and the    *)
(* robot_state subscription callback.                                      *)
(*                                                                         *)
(* Python values are represented as follows.                               *)
(*   None            the record None                                       *)
(*   task_id (str)   a sequence of one-character tokens (<<"1","2">> is    *)
(*                   "12"); the token "sup2" is U+00B2 SUPERSCRIPT TWO.    *)
(*                   Strings that are only compared or used as keys        *)
(*                   (names, topics, labels) are TLA+ strings.             *)
(*   Optional[str]   None or PyStr(s)                                      *)
(*   Optional[int]   None or PyInt(n)                                      *)
(*   Optional[bool]  None or PyBool(b)                                     *)
(*   dict            a function from its keys to its values                *)
(*   Location        a record [x, y, yaw, level_name]; yaw is in degrees   *)
(*   yaw             a whole number of degrees: np.pi is 180                *)
(* Not modelled: Location.t (the wall-clock arrival stamp) and the         *)
(* speed-limit fields of a navigate target, which no handler reads back.   *)
(***************************************************************************)
EXTENDS Integers, Sequences, FiniteSets, TLC

VARIABLES
    robots,     \* FleetManager.robots: robot name -> State
    pubs,       \* messages published by the last operation, in order
    resp,       \* the last operation: which, for which robot name, whether it
                \* raised and the success flag it returned
    spinning,   \* the rclpy.spin thread is alive
    cb,         \* the robot_state_cb execution of the spin thread: where it
                \* is, its msg and its completed_request
    handler,    \* the handler execution of the server thread: where it is,
                \* its arguments and its locals
    window,     \* the table when the executions now overlapping began, and
                \* the message and the call that have run since
    bus,        \* the path requests in flight to the robots
    config,     \* what __init__ read from mgr_config reference_coordinates:
                \* gps and offset
    link        \* per robot: the request it received last, the ids of the
                \* commands dispatched to it, and of the last of them whether
                \* the bus dropped a copy, whether the robot received it and
                \* whether a report with its id was stored

conc_vars == <<cb, handler, window>>

live_vars == <<bus, link>>

vars ==
    <<robots, pubs, resp, spinning, cb, handler, window, bus, link, config>>

None == [none |-> TRUE]
PyInt(n) == [int |-> n]
PyBool(b) == [bool |-> b]
PyStr(s) == [str |-> s]

\* Python truthiness of an Optional[bool]
Truthy(v) == v # None /\ v.bool

-----------------------------------------------------------------------------
(* Bounds of the model *)

MaxCmdId == 2

-----------------------------------------------------------------------------
(* Python str <-> int *)

DecimalChars == {"0", "1", "2", "3", "4", "5", "6", "7", "8", "9"}

\* str.isdigit() also accepts digits that are not decimal characters, such as
\* the superscript digits.
DigitChars == DecimalChars \cup {"sup2"}

DigitChar(d) ==
    CASE d = 0 -> "0" [] d = 1 -> "1" [] d = 2 -> "2" [] d = 3 -> "3"
      [] d = 4 -> "4" [] d = 5 -> "5" [] d = 6 -> "6" [] d = 7 -> "7"
      [] d = 8 -> "8" [] d = 9 -> "9"

DigitVal(c) == CHOOSE d \in 0..9 : DigitChar(d) = c

RECURSIVE StrNat(_)
StrNat(n) == IF n < 10 THEN <<DigitChar(n)>>
             ELSE Append(StrNat(n \div 10), DigitChar(n % 10))

\* str(n) for an int n
str(n) == IF n < 0 THEN <<"-">> \o StrNat(-n) ELSE StrNat(n)

\* s.isdigit()
isdigit(s) == Len(s) > 0 /\ \A i \in 1..Len(s) : s[i] \in DigitChars

\* s.isdecimal(): what int(s) can parse among the strings isdigit accepts
isdecimal(s) == Len(s) > 0 /\ \A i \in 1..Len(s) : s[i] \in DecimalChars

RECURSIVE DecimalValue(_)
DecimalValue(s) ==
    IF Len(s) = 0 THEN 0
    ELSE 10 * DecimalValue(SubSeq(s, 1, Len(s) - 1)) + DigitVal(s[Len(s)])

\* int(s): an optional sign and decimal characters give the value, anything
\* else raises ValueError (surrounding blanks and "_" are not modelled)
int(s) ==
    IF isdecimal(s) THEN PyInt(DecimalValue(s))
    ELSE IF Len(s) > 1 /\ s[1] = "-" /\ isdecimal(Tail(s))
    THEN PyInt(0 - DecimalValue(Tail(s)))
    ELSE [ValueError |-> TRUE]

IsValueError(v) == "ValueError" \in DOMAIN v

-----------------------------------------------------------------------------
(* Configuration and message constants *)

fleet_name == "fleet"

\* rmf_fleet_msgs/RobotMode
MODE_IDLE == 0
MODE_CHARGING == 1
MODE_MOVING == 2
MODE_WAITING == 4
MODE_ADAPTER_ERROR == 8
MODE_PERFORMING_ACTION == 10
MODE_ACTION_COMPLETED == 11

\* config['rmf_fleet']['robots']
Roster == {"r1"}
\* robot names a request or a report may carry
Names == Roster \cup {"ghost"}

\* mgr_config without reference_coordinates: planar positions are used
PlanarConfig == [gps |-> FALSE, offset |-> <<0, 0>>]

\* mgr_config with an offset under reference_coordinates
GeodeticConfig == [gps |-> TRUE, offset |-> <<1, 1>>]

gps == config.gps
offset == config.offset

Loc(x, y, yaw, level) == [x |-> x, y |-> y, yaw |-> yaw, level_name |-> level]

\* Location(): the message's default values
DefaultLocation == Loc(0, 0, 0, "")

\* fleet_manager_config['action_paths']: activity -> label -> path
action_paths ==
    [dock |-> [a |-> [map_name |-> "L1", path |-> <<<<2, 0, 90>>, <<2, 2, 0>>>>],
               b |-> [map_name |-> "L1", path |-> <<>>]]]

-----------------------------------------------------------------------------
(* class State *)

\* Mutant: a record that starts with a destination
State_with_destination ==
    [state |-> None, destination |-> DefaultLocation,
     last_path_request |-> None, last_completed_request |-> None,
     perform_action_mode |-> PyBool(FALSE), gps_pos |-> <<0, 0>>]

\* State.__init__
State ==
    [state |-> None,
     destination |-> None,
     last_path_request |-> None,
     last_completed_request |-> None,
     perform_action_mode |-> PyBool(FALSE),
     gps_pos |-> <<0, 0>>]

\* Mutant: every task id is taken as the expected one
is_expected_task_id_any(robot, task_id) == TRUE

\* State.is_expected_task_id
is_expected_task_id(robot, task_id) ==
    IF robot.last_path_request # None
    THEN IF task_id # robot.last_path_request.task_id THEN FALSE ELSE TRUE
    ELSE TRUE

-----------------------------------------------------------------------------
(* Outcomes of an operation *)

PATH_TOPIC == "robot_path_requests"
MODE_TOPIC == "robot_mode_requests"
NOTICE_TOPIC == "action_execution_notice"

Pub(topic, msg) == [topic |-> topic, msg |-> msg]

\* The handler returned Response(data=..., success=..., msg=''), leaving the
\* table rs and having published ps
ReturnedData(rs, ps, op, name, success, data) ==
    [robots |-> rs, pubs |-> ps, data |-> data,
     resp |-> [op |-> op, robot |-> name, raised |-> FALSE,
               success |-> success]]

Returned(rs, ps, op, name, success) ==
    ReturnedData(rs, ps, op, name, success, None)

\* The handler was left by an uncaught exception, after the writes in rs
Raised(rs, ps, op, name) ==
    [robots |-> rs, pubs |-> ps, data |-> None,
     resp |-> [op |-> op, robot |-> name, raised |-> TRUE,
               success |-> FALSE]]

\* Mutant: every request is addressed to the same robot
PathRequest_to_first(robot_name, path, task_id) ==
    [fleet_name |-> fleet_name, robot_name |-> "r1",
     path |-> path, task_id |-> task_id]

PathRequest(robot_name, path, task_id) ==
    [fleet_name |-> fleet_name, robot_name |-> robot_name,
     path |-> path, task_id |-> task_id]

\* Mutant: the mode request carries the id 0 whatever cmd_id is
make_mode_request_id0(robot_name, cmd_id, mode, action) ==
    [fleet_name |-> fleet_name, robot_name |-> robot_name,
     mode |-> [mode |-> mode, mode_request_id |-> 0,
               performing_action |-> action]]

\* FleetManager._make_mode_request
make_mode_request(robot_name, cmd_id, mode, action) ==
    [fleet_name |-> fleet_name, robot_name |-> robot_name,
     mode |-> [mode |-> mode, mode_request_id |-> cmd_id,
               performing_action |-> action]]

-----------------------------------------------------------------------------
(* HTTP handlers.  Each takes the robots table and the request and gives    *)
(* the table it leaves, what it published and what it returned.             *)

\* navigate(robot_name, cmd_id, dest); dest is the Request body
navigate(rs, robot_name, cmd_id, dest) ==
    IF robot_name \notin DOMAIN rs
    THEN Returned(rs, <<>>, "navigate", robot_name, FALSE)
    ELSE IF dest.destination = None
    THEN Raised(rs, <<>>, "navigate", robot_name)      \* len(None): TypeError
    ELSE IF Cardinality(DOMAIN dest.destination) < 1
    THEN Returned(rs, <<>>, "navigate", robot_name, FALSE)
    ELSE IF ~({"x", "y", "yaw"} \subseteq DOMAIN dest.destination)
    THEN Raised(rs, <<>>, "navigate", robot_name)      \* KeyError
    ELSE LET robot == rs[robot_name] IN
         IF robot.state = None
         THEN Raised(rs, <<>>, "navigate", robot_name) \* None.location
         ELSE LET cur_loc == robot.state.location
                  target_loc == Loc(dest.destination.x - offset[1],
                                    dest.destination.y - offset[2],
                                    dest.destination.yaw,
                                    dest.map_name)
                  path_request == PathRequest(robot_name,
                                              <<cur_loc, target_loc>>,
                                              str(cmd_id))
              IN Returned([rs EXCEPT ![robot_name] =
                              [robot EXCEPT !.last_path_request = path_request,
                                            !.destination = target_loc]],
                          <<Pub(PATH_TOPIC, path_request)>>,
                          "navigate", robot_name, TRUE)

\* Mutant: the stop request carries the id of the running command
stop_running_id(rs, robot_name, running_cmd_id, stop_cmd_id) ==
    IF robot_name \notin DOMAIN rs
    THEN Returned(rs, <<>>, "stop", robot_name, FALSE)
    ELSE LET robot == rs[robot_name] IN
         IF robot.state = None
         THEN Raised(rs, <<>>, "stop", robot_name)
         ELSE LET path_request ==
                      PathRequest(robot_name,
                                  <<robot.state.location, robot.state.location>>,
                                  IF robot.last_path_request # None
                                  THEN robot.last_path_request.task_id
                                  ELSE str(stop_cmd_id))
              IN Returned([rs EXCEPT ![robot_name] =
                              [robot EXCEPT !.last_path_request = path_request,
                                            !.destination = None]],
                          <<Pub(PATH_TOPIC, path_request)>>,
                          "stop", robot_name, TRUE)

\* stop(robot_name, running_cmd_id, stop_cmd_id)
stop(rs, robot_name, running_cmd_id, stop_cmd_id) ==
    IF robot_name \notin DOMAIN rs
    THEN Returned(rs, <<>>, "stop", robot_name, FALSE)
    ELSE LET robot == rs[robot_name] IN
         IF robot.state = None
         THEN Raised(rs, <<>>, "stop", robot_name)     \* None.location
         ELSE LET path_request ==
                      PathRequest(robot_name,
                                  <<robot.state.location, robot.state.location>>,
                                  str(stop_cmd_id))
              IN Returned([rs EXCEPT ![robot_name] =
                              [robot EXCEPT !.last_path_request = path_request,
                                            !.destination = None]],
                          <<Pub(PATH_TOPIC, path_request)>>,
                          "stop", robot_name, TRUE)

\* The Locations start_activity builds from activity_path['path']
Waypoints(activity_path) ==
    [i \in 1..Len(activity_path.path) |->
        Loc(activity_path.path[i][1], activity_path.path[i][2],
            activity_path.path[i][3], activity_path.map_name)]

\* start_activity(robot_name, cmd_id, request)
start_activity(rs, robot_name, cmd_id, request) ==
    IF \/ robot_name \notin DOMAIN rs
       \/ request.activity \notin DOMAIN action_paths
       \/ request.label \notin DOMAIN action_paths[request.activity]
    THEN Returned(rs, <<>>, "start_activity", robot_name, FALSE)
    ELSE LET robot == rs[robot_name] IN
         IF robot.state = None
         THEN Raised(rs, <<>>, "start_activity", robot_name)
         ELSE LET cur_loc == robot.state.location
                  activity_path == action_paths[request.activity][request.label]
                  wps == Waypoints(activity_path)
                  \* target_loc after the loop: the last waypoint built, or
                  \* the Location() made before the loop
                  target_loc == IF Len(wps) = 0 THEN DefaultLocation
                                ELSE wps[Len(wps)]
                  path_request == PathRequest(robot_name, <<cur_loc>> \o wps,
                                              str(cmd_id))
              IN ReturnedData(
                     [rs EXCEPT ![robot_name] =
                         [robot EXCEPT !.last_path_request = path_request,
                                       !.destination = target_loc]],
                     <<Pub(PATH_TOPIC, path_request)>>,
                     "start_activity", robot_name, TRUE,
                     [path |-> activity_path])

\* Mutant: entering or leaving action mode also drops the destination
toggle_teleop_clearing(rs, robot_name, mode) ==
    IF robot_name \notin DOMAIN rs
    THEN Returned(rs, <<>>, "toggle_teleop", robot_name, FALSE)
    ELSE Returned([rs EXCEPT ![robot_name].perform_action_mode = mode.toggle,
                             ![robot_name].destination = None],
                  <<>>, "toggle_teleop", robot_name, TRUE)

\* toggle_teleop(robot_name, mode)
toggle_teleop(rs, robot_name, mode) ==
    IF robot_name \notin DOMAIN rs
    THEN Returned(rs, <<>>, "toggle_teleop", robot_name, FALSE)
    ELSE Returned([rs EXCEPT ![robot_name].perform_action_mode = mode.toggle],
                  <<>>, "toggle_teleop", robot_name, TRUE)

\* Mutant: the mode request is published before the roster is consulted
toggle_attach_unchecked(rs, robot_name, cmd_id, mode) ==
    LET msg == IF Truthy(mode.toggle)
               THEN make_mode_request(robot_name, cmd_id,
                                      MODE_PERFORMING_ACTION, "attach_cart")
               ELSE make_mode_request(robot_name, cmd_id,
                                      MODE_PERFORMING_ACTION, "detach_cart")
    IN Returned(rs, <<Pub(MODE_TOPIC, msg)>>, "toggle_attach", robot_name,
                robot_name \in DOMAIN rs)

\* toggle_attach(robot_name, cmd_id, mode)
toggle_attach(rs, robot_name, cmd_id, mode) ==
    IF robot_name \notin DOMAIN rs
    THEN Returned(rs, <<>>, "toggle_attach", robot_name, FALSE)
    ELSE LET msg == IF Truthy(mode.toggle)
                    THEN make_mode_request(robot_name, cmd_id,
                                           MODE_PERFORMING_ACTION, "attach_cart")
                    ELSE make_mode_request(robot_name, cmd_id,
                                           MODE_PERFORMING_ACTION, "detach_cart")
         IN Returned(rs, <<Pub(MODE_TOPIC, msg)>>,
                     "toggle_attach", robot_name, TRUE)

-----------------------------------------------------------------------------
(* The robot_state subscription *)

\* Mutant: the completion test without the test of the mode
reports_completion_any_mode(msg) ==
    /\ Len(msg.path) = 0
    /\ Len(msg.task_id) > 0
    /\ isdigit(msg.task_id)

\* The completion test of robot_state_cb: idle or charging, no remaining
\* path, and a task id that is not empty and isdigit()
reports_completion(msg) ==
    /\ (msg.mode = MODE_IDLE \/ msg.mode = MODE_CHARGING)
    /\ Len(msg.path) = 0
    /\ Len(msg.task_id) > 0
    /\ isdigit(msg.task_id)

\* Mutant: the staleness test without the test of perform_action_mode
out_of_date_in_any_mode(robot, msg) ==
    ~is_expected_task_id(robot, msg.task_id)

\* Mutant: the staleness test with the test of perform_action_mode inverted
out_of_date_in_action_mode(robot, msg) ==
    /\ ~is_expected_task_id(robot, msg.task_id)
    /\ Truthy(robot.perform_action_mode)

\* The staleness test of robot_state_cb
out_of_date(robot, msg) ==
    /\ ~is_expected_task_id(robot, msg.task_id)
    /\ ~Truthy(robot.perform_action_mode)

\* FleetManager.robot_state_cb
robot_state_cb(rs, msg) ==
    IF msg.name \notin DOMAIN rs
    THEN Returned(rs, <<>>, "robot_state_cb", msg.name, FALSE)
    ELSE LET robot == rs[msg.name] IN
         IF out_of_date(robot, msg)
         THEN \* out of date: resend the latest request and disregard
              Returned(rs,
                       IF robot.last_path_request # None
                       THEN <<Pub(PATH_TOPIC, robot.last_path_request)>>
                       ELSE <<>>,
                       "robot_state_cb", msg.name, FALSE)
         ELSE LET r1 == [robot EXCEPT !.state = msg] IN
              IF reports_completion(msg)
              THEN LET r2 == [r1 EXCEPT !.destination = None]
                       completed_request == int(msg.task_id)
                   IN IF IsValueError(completed_request)
                      THEN Raised([rs EXCEPT ![msg.name] = r2], <<>>,
                                  "robot_state_cb", msg.name)
                      ELSE Returned([rs EXCEPT ![msg.name] =
                                        [r2 EXCEPT !.last_completed_request =
                                                       completed_request]],
                                    <<>>, "robot_state_cb", msg.name, FALSE)
              ELSE Returned([rs EXCEPT ![msg.name] = r1], <<>>,
                            "robot_state_cb", msg.name, FALSE)

-----------------------------------------------------------------------------
(* Status reads *)

\* np.pi, in the unit of yaw
pi == 180

\* vehicle_traits.linear.nominal_velocity, in distance units per second, and
\* vehicle_traits.rotational.nominal_velocity, in units of yaw per second
linear_nominal_velocity == 1
rotational_nominal_velocity == 30

abs(v) == IF v < 0 THEN 0 - v ELSE v

\* FleetManager.disp: the distance from A to B; [sqrt |-> n] is the square
\* root of n
disp(A, B) == [sqrt |-> (A[1] - B[1]) * (A[1] - B[1])
                        + (A[2] - B[2]) * (A[2] - B[2])]

\* Mutant: the two headings are added
ori_delta_sum(angle, yaw) == abs(angle) + abs(yaw)

\* Mutant: the difference of the headings themselves
ori_delta_signed(angle, yaw) == abs(angle - yaw)

\* ori_delta of get_robot_state as first assigned, before the corrections;
\* navigate uses the same expression for the arrival stamp
ori_delta_uncorrected(angle, yaw) == abs(abs(angle) - abs(yaw))

\* ori_delta of get_robot_state, with its two corrections in turn
ori_delta(angle, yaw) ==
    LET delta == ori_delta_uncorrected(angle, yaw)
        above == IF delta > pi THEN delta - (2 * pi) ELSE delta
    IN IF above < 0 - pi THEN (2 * pi) + above ELSE above

\* duration of get_robot_state: the number
\*   dist_to_target / linear_nominal_velocity
\*     + ori_delta / rotational_nominal_velocity
\* kept as its two terms' numerators
Duration(dist_to_target, delta) ==
    [dist_to_target |-> dist_to_target, ori_delta |-> delta]

\* duration < 0: the second term is negative and larger than the first
DurationNegative(duration) ==
    /\ duration.ori_delta < 0
    /\ duration.dist_to_target.sqrt
            * rotational_nominal_velocity * rotational_nominal_velocity
       < duration.ori_delta * duration.ori_delta
            * linear_nominal_velocity * linear_nominal_velocity

\* duration = 0
DurationZero(duration) ==
    /\ duration.ori_delta <= 0
    /\ duration.dist_to_target.sqrt
            * rotational_nominal_velocity * rotational_nominal_velocity
       = duration.ori_delta * duration.ori_delta
            * linear_nominal_velocity * linear_nominal_velocity

\* Mutant: position is robot.gps_pos itself, so removing the offset from
\* position removes it from the record
gps_pos_after_read_shared(robot) ==
    IF gps /\ robot.destination # None /\ robot.last_path_request # None
    THEN <<robot.gps_pos[1] - offset[1], robot.gps_pos[2] - offset[2]>>
    ELSE robot.gps_pos

\* robot.gps_pos when get_robot_state returns: position is a deep copy of
\* it, and the offset is removed from the copy
gps_pos_after_read(robot) == robot.gps_pos

\* FleetManager.get_robot_state: the data it returns, what it publishes and
\* the gps_pos it leaves in the record
get_robot_state(robot, robot_name) ==
    LET position == IF gps THEN robot.gps_pos
                    ELSE <<robot.state.location.x, robot.state.location.y>>
        angle == robot.state.location.yaw
        destination_arrival ==
            IF robot.destination # None /\ robot.last_path_request # None
            THEN LET destination == robot.destination
                     \* remove offset for calculation if using gps coords
                     from == IF gps THEN <<position[1] - offset[1],
                                           position[2] - offset[2]>>
                             ELSE position
                     dist_to_target ==
                         disp(from, <<destination.x, destination.y>>)
                 IN [cmd_id |-> int(robot.last_path_request.task_id).int,
                     duration |-> Duration(dist_to_target,
                                           ori_delta(angle, destination.yaw))]
            ELSE None
        replan == \/ robot.state.mode = MODE_WAITING
                  \/ robot.state.mode = MODE_ADAPTER_ERROR
        msg == make_mode_request(robot_name, 0, MODE_IDLE, "")
    IN [data |-> [robot_name |-> robot_name,
                  map_name |-> robot.state.location.level_name,
                  position |-> [x |-> position[1], y |-> position[2],
                                yaw |-> angle],
                  battery |-> robot.state.battery_percent,
                  destination_arrival |-> destination_arrival,
                  last_completed_request |-> robot.last_completed_request,
                  replan |-> replan],
        pubs |-> IF robot.state.mode = MODE_ACTION_COMPLETED
                 THEN <<Pub(NOTICE_TOPIC, msg), Pub(MODE_TOPIC, msg)>>
                 ELSE <<>>,
        gps_pos |-> gps_pos_after_read(robot)]

\* the order in which status() walks self.robots
RobotOrder == <<"r1", "r2">>

\* the all-robots loop of status() over the names in order, from the data
\* and publications gathered so far
RECURSIVE StatusAll(_, _, _, _)
StatusAll(rs, order, all_robots, ps) ==
    IF Len(order) = 0
    THEN ReturnedData(rs, ps, "status", "", TRUE,
                      [all_robots |-> all_robots])
    ELSE IF rs[Head(order)].state = None
    THEN ReturnedData(rs, ps, "status", "", FALSE,
                      [all_robots |-> all_robots])
    ELSE LET got == get_robot_state(rs[Head(order)], Head(order))
         IN StatusAll([rs EXCEPT ![Head(order)].gps_pos = got.gps_pos],
                      Tail(order), Append(all_robots, got.data),
                      ps \o got.pubs)

\* status(robot_name); robot_name is None or PyStr(name)
status(rs, robot_name) ==
    IF robot_name = None
    THEN StatusAll(rs, SelectSeq(RobotOrder, LAMBDA n : n \in DOMAIN rs),
                   <<>>, <<>>)
    ELSE IF robot_name.str \notin DOMAIN rs \/ rs[robot_name.str].state = None
    THEN ReturnedData(rs, <<>>, "status", robot_name.str, FALSE, <<>>)
    ELSE LET got == get_robot_state(rs[robot_name.str], robot_name.str)
         IN ReturnedData([rs EXCEPT ![robot_name.str].gps_pos = got.gps_pos],
                         got.pubs, "status", robot_name.str, TRUE, got.data)

-----------------------------------------------------------------------------
(* The /gps socket *)

\* svy_transformer.transform, the projection of a fix (lat, lon) to
\* (northing, easting), done by a library: here a fixed one-to-one map of
\* the fixes used
svy_transformer(lat, lon) == <<(2 * lat) + 1, (2 * lon) + 4>>

\* the handler of '/gps' with State.gps_to_xy; data is the decoded message.
\* A KeyError, for a key the message lacks or a robot the table lacks, is
\* caught.
gps_message(rs, data) ==
    IF "robot_id" \notin DOMAIN data
    THEN Returned(rs, <<>>, "gps", "", FALSE)
    ELSE IF \/ data.robot_id \notin DOMAIN rs
            \/ ~({"lat", "lon"} \subseteq DOMAIN data)
    THEN Returned(rs, <<>>, "gps", data.robot_id, FALSE)
    ELSE LET svy21_xy == svy_transformer(data.lat, data.lon)
         IN Returned([rs EXCEPT ![data.robot_id].gps_pos =
                                    <<svy21_xy[2], svy21_xy[1]>>],
                     <<>>, "gps", data.robot_id, TRUE)

-----------------------------------------------------------------------------
(* Inputs *)

CmdIds == 1..MaxCmdId

\* task ids a report may carry: the ids of commands, none, a non-numeric
\* one, and one that isdigit() accepts and int() does not
ReportTaskIds == {str(c) : c \in CmdIds} \cup {<<>>, <<"a">>, <<"sup2">>}

LocA == Loc(1, 1, 0, "L1")
LocB == Loc(2, 0, 90, "L1")
Locations == {LocA, LocB}

\* mode and remaining path of a report
ReportShapes ==
    ({MODE_IDLE, MODE_CHARGING, MODE_WAITING, MODE_ADAPTER_ERROR,
      MODE_ACTION_COMPLETED} \X {<<>>})
    \cup ({MODE_IDLE, MODE_MOVING} \X {<<LocB>>})

Report(name, task_id, shape, location) ==
    [name |-> name, task_id |-> task_id, mode |-> shape[1], path |-> shape[2],
     location |-> location, battery_percent |-> 100]

\* RobotState messages: every combination for the robots of the roster, one
\* message from a robot that is not in it
Reports ==
    {Report(n, t, sh, LocA) : n \in Roster, t \in ReportTaskIds,
                              sh \in ReportShapes}
    \cup {Report(n, t, <<MODE_MOVING, <<LocB>>>>, LocB) :
              n \in Roster, t \in ReportTaskIds}
    \cup {Report("ghost", <<>>, <<MODE_IDLE, <<>>>>, LocA)}

\* Request bodies of navigate: complete ones, and ones with no destination,
\* an empty one and one lacking keys
FullDestinations == {[x |-> 2, y |-> 0, yaw |-> 90]}
BadDestinations == {None, <<>>, [x |-> 2]}

NavigateCalls ==
    (Roster \X CmdIds \X FullDestinations)
    \cup (Names \X {1} \X BadDestinations)
    \cup ({"ghost"} \X {1} \X FullDestinations)

StopCalls == (Roster \X CmdIds) \cup ({"ghost"} \X {1})

ActivityCalls ==
    (Roster \X CmdIds \X {<<"dock", "a">>, <<"dock", "b">>})
    \cup (Names \X {1} \X {<<"wash", "a">>, <<"dock", "c">>})
    \cup ({"ghost"} \X {1} \X {<<"dock", "a">>})

Toggles == {None, PyBool(TRUE), PyBool(FALSE)}

ToggleCalls == Names \X {PyBool(TRUE), PyBool(FALSE)}

AttachCalls ==
    (Roster \X {1} \X Toggles) \cup ({"ghost"} \X {1} \X {PyBool(TRUE)})

StatusNames == {None} \cup {PyStr(n) : n \in Names}

-----------------------------------------------------------------------------
(* The program, one handler at a time *)

\* No robot_state_cb execution is under way
NoCallback == [pc |-> "idle", msg |-> None, completed_request |-> None]

\* No handler execution is under way
NoHandler ==
    [pc |-> "idle", op |-> "", robot_name |-> "", cmd_id |-> 0,
     path |-> <<>>, target_loc |-> None, path_request |-> None]

NoWindow == [pre |-> None, msg |-> None, call |-> None]

NoLink ==
    [received |-> None, dispatched |-> <<>>, lost |-> FALSE, got |-> FALSE,
     seen |-> FALSE]

Init ==
    /\ robots = [robot_name \in Roster |-> State]
    /\ pubs = <<>>
    /\ resp = [op |-> "init", robot |-> "", raised |-> FALSE, success |-> TRUE]
    /\ spinning = TRUE
    /\ cb = NoCallback
    /\ handler = NoHandler
    /\ window = NoWindow
    /\ bus = {}
    /\ link = [robot_name \in Roster |-> NoLink]
    /\ config = PlanarConfig

\* An HTTP handler ran to its end; an exception in it becomes an error
\* response and the server goes on.
Handle(out) ==
    /\ robots' = out.robots
    /\ pubs' = out.pubs
    /\ resp' = out.resp
    /\ UNCHANGED <<spinning, conc_vars, live_vars, config>>

Navigate ==
    \E call \in NavigateCalls :
        Handle(navigate(robots, call[1], call[2],
                        [map_name |-> "L1", destination |-> call[3]]))

Stop ==
    \E call \in StopCalls :
        Handle(stop(robots, call[1], call[2], call[2]))

StartActivity ==
    \E call \in ActivityCalls :
        Handle(start_activity(robots, call[1], call[2],
                              [activity |-> call[3][1], label |-> call[3][2]]))

ToggleTeleop ==
    \E call \in ToggleCalls :
        Handle(toggle_teleop(robots, call[1], [toggle |-> call[2]]))

ToggleAttach ==
    \E call \in AttachCalls :
        Handle(toggle_attach(robots, call[1], call[2], [toggle |-> call[3]]))

Status ==
    \E n \in StatusNames : Handle(status(robots, n))

\* rclpy.spin delivers one RobotState message; an exception in the callback
\* leaves rclpy.spin and ends the spin thread.
RobotStateCb ==
    /\ spinning
    /\ \E msg \in Reports :
          LET out == robot_state_cb(robots, msg)
          IN /\ robots' = out.robots
             /\ pubs' = out.pubs
             /\ resp' = out.resp
             /\ spinning' = ~out.resp.raised
             /\ UNCHANGED <<conc_vars, live_vars, config>>

Next ==
    \/ Navigate
    \/ Stop
    \/ StartActivity
    \/ ToggleTeleop
    \/ ToggleAttach
    \/ Status
    \/ RobotStateCb

Spec == Init /\ [][Next]_vars

-----------------------------------------------------------------------------
(* The program, one statement at a time.  main starts rclpy.spin on a      *)
(* thread of its own and runs the HTTP server on the main thread, and no   *)
(* lock guards a State record: robot_state_cb and a handler can each be    *)
(* anywhere in its body when the other reads or writes the record.  A step *)
(* below is a stretch of statements with the record accesses it makes.     *)
(* The executions followed are those where at most one robot_state_cb and  *)
(* one handler execution overlap: an execution begins when the other       *)
(* thread is idle, or has not yet run since the other's began.             *)

\* reports of a robot on its way from LocA and of one at rest at LocB
ConcReports ==
    {Report(n, t, <<MODE_MOVING, <<LocB>>>>, LocA) :
        n \in Roster, t \in {<<>>} \cup {str(c) : c \in CmdIds}}
    \cup {Report(n, t, <<MODE_IDLE, <<>>>>, LocB) :
        n \in Roster, t \in {<<>>} \cup {str(c) : c \in CmdIds}}

ConcDestination == [map_name |-> "L1", destination |-> [x |-> 2, y |-> 0, yaw |-> 90]]
ConcActivity == [activity |-> "dock", label |-> "a"]

\* a call of a handler, as the window records it
Call(op, robot_name, cmd_id) ==
    [op |-> op, robot_name |-> robot_name, cmd_id |-> cmd_id]

\* the handler of a call, run without interruption
RunCall(rs, call) ==
    CASE call.op = "navigate" ->
             navigate(rs, call.robot_name, call.cmd_id, ConcDestination)
      [] call.op = "stop" ->
             stop(rs, call.robot_name, call.cmd_id, call.cmd_id)
      [] call.op = "start_activity" ->
             start_activity(rs, call.robot_name, call.cmd_id, ConcActivity)

\* rclpy.spin takes msg and enters robot_state_cb
CbEnters(msg) ==
    /\ spinning
    /\ cb.pc = "idle"
    /\ handler.pc = "idle" \/ window.msg = None
    /\ window' = IF handler.pc = "idle"
                 THEN [pre |-> robots, msg |-> msg, call |-> None]
                 ELSE [window EXCEPT !.msg = msg]

\* the server takes a request and enters its handler
HandlerEnters(call) ==
    /\ handler.pc = "idle"
    /\ cb.pc = "idle" \/ window.call = None
    /\ window' = IF cb.pc = "idle"
                 THEN [pre |-> robots, msg |-> None, call |-> call]
                 ELSE [window EXCEPT !.call = call]

CbReturns(raised) ==
    /\ cb' = NoCallback
    /\ resp' = [op |-> "robot_state_cb", robot |-> cb.msg.name,
                raised |-> raised, success |-> FALSE]
    /\ spinning' = ~raised

HandlerReturns(raised, success) ==
    /\ handler' = NoHandler
    /\ resp' = [op |-> handler.op, robot |-> handler.robot_name,
                raised |-> raised, success |-> success]

\* robot_state_cb, the staleness test
CbCheck ==
    \E msg \in ConcReports :
        /\ CbEnters(msg)
        /\ cb' = [pc |-> IF out_of_date(robots[msg.name], msg)
                         THEN "republish" ELSE "store",
                  msg |-> msg, completed_request |-> None]
        /\ UNCHANGED <<robots, pubs, resp, spinning, handler, live_vars,
                       config>>

\* robot_state_cb, out of date: resend the latest request and return
CbRepublish ==
    /\ cb.pc = "republish"
    /\ LET robot == robots[cb.msg.name]
       IN pubs' = IF robot.last_path_request # None
                  THEN <<Pub(PATH_TOPIC, robot.last_path_request)>>
                  ELSE <<>>
    /\ CbReturns(FALSE)
    /\ UNCHANGED <<robots, handler, window, live_vars, config>>

\* robot_state_cb: robot.state = msg
CbStore ==
    /\ cb.pc = "store"
    /\ robots' = [robots EXCEPT ![cb.msg.name].state = cb.msg]
    /\ cb' = [cb EXCEPT !.pc = "complete"]
    /\ UNCHANGED <<pubs, resp, spinning, handler, window, live_vars, config>>

\* robot_state_cb, the completion test with robot.destination = None and
\* int(msg.task_id)
CbComplete ==
    /\ cb.pc = "complete"
    /\ IF reports_completion(cb.msg)
       THEN /\ robots' = [robots EXCEPT ![cb.msg.name].destination = None]
            /\ LET completed_request == int(cb.msg.task_id)
               IN IF IsValueError(completed_request)
                  THEN /\ CbReturns(TRUE)
                       /\ pubs' = <<>>
                  ELSE /\ cb' = [cb EXCEPT !.pc = "record",
                                           !.completed_request =
                                               completed_request]
                       /\ UNCHANGED <<pubs, resp, spinning>>
       ELSE /\ CbReturns(FALSE)
            /\ pubs' = <<>>
            /\ UNCHANGED robots
    /\ UNCHANGED <<handler, window, live_vars, config>>

\* robot_state_cb: robot.last_completed_request = completed_request
CbRecord ==
    /\ cb.pc = "record"
    /\ robots' = [robots EXCEPT ![cb.msg.name].last_completed_request =
                                    cb.completed_request]
    /\ pubs' = <<>>
    /\ CbReturns(FALSE)
    /\ UNCHANGED <<handler, window, live_vars, config>>

\* navigate, the checks of the request
NavigateCheck ==
    \E robot_name \in Roster, cmd_id \in CmdIds :
        /\ HandlerEnters(Call("navigate", robot_name, cmd_id))
        /\ handler' = [NoHandler EXCEPT
                          !.pc = "read", !.op = "navigate",
                          !.robot_name = robot_name, !.cmd_id = cmd_id,
                          !.target_loc =
                              Loc(ConcDestination.destination.x - offset[1],
                                  ConcDestination.destination.y - offset[2],
                                  ConcDestination.destination.yaw,
                                  ConcDestination.map_name)]
        /\ UNCHANGED <<robots, pubs, resp, spinning, cb, live_vars, config>>

\* navigate: cur_loc = robot.state.location
NavigateRead ==
    /\ handler.op = "navigate" /\ handler.pc = "read"
    /\ LET robot == robots[handler.robot_name]
       IN IF robot.state = None
          THEN /\ HandlerReturns(TRUE, FALSE)
               /\ pubs' = <<>>
          ELSE /\ handler' = [handler EXCEPT
                                 !.pc = "publish",
                                 !.path = <<robot.state.location>>]
               /\ UNCHANGED <<pubs, resp>>
    /\ UNCHANGED <<robots, spinning, cb, window, live_vars, config>>

\* navigate: the request is completed and published
NavigatePublish ==
    /\ handler.op = "navigate" /\ handler.pc = "publish"
    /\ LET path_request ==
               PathRequest(handler.robot_name,
                           Append(handler.path, handler.target_loc),
                           str(handler.cmd_id))
       IN /\ pubs' = <<Pub(PATH_TOPIC, path_request)>>
          /\ handler' = [handler EXCEPT !.pc = "set_request",
                                        !.path_request = path_request]
    /\ UNCHANGED <<robots, resp, spinning, cb, window, live_vars, config>>

\* navigate: robot.last_path_request = path_request
NavigateSetRequest ==
    /\ handler.op = "navigate" /\ handler.pc = "set_request"
    /\ robots' = [robots EXCEPT ![handler.robot_name].last_path_request =
                                    handler.path_request]
    /\ handler' = [handler EXCEPT !.pc = "set_destination"]
    /\ UNCHANGED <<pubs, resp, spinning, cb, window, live_vars, config>>

\* navigate: robot.destination = target_loc, and the response
NavigateSetDestination ==
    /\ handler.op = "navigate" /\ handler.pc = "set_destination"
    /\ robots' = [robots EXCEPT ![handler.robot_name].destination =
                                    handler.target_loc]
    /\ HandlerReturns(FALSE, TRUE)
    /\ UNCHANGED <<pubs, spinning, cb, window, live_vars, config>>

\* stop, the check of the name
StopCheck ==
    \E robot_name \in Roster, stop_cmd_id \in CmdIds :
        /\ HandlerEnters(Call("stop", robot_name, stop_cmd_id))
        /\ handler' = [NoHandler EXCEPT
                          !.pc = "read", !.op = "stop",
                          !.robot_name = robot_name, !.cmd_id = stop_cmd_id]
        /\ UNCHANGED <<robots, pubs, resp, spinning, cb, live_vars, config>>

\* stop: path_request.path.append(robot.state.location), the first
StopRead ==
    /\ handler.op = "stop" /\ handler.pc = "read"
    /\ LET robot == robots[handler.robot_name]
       IN IF robot.state = None
          THEN /\ HandlerReturns(TRUE, FALSE)
               /\ pubs' = <<>>
          ELSE /\ handler' = [handler EXCEPT
                                 !.pc = "read_again",
                                 !.path = <<robot.state.location>>]
               /\ UNCHANGED <<pubs, resp>>
    /\ UNCHANGED <<robots, spinning, cb, window, live_vars, config>>

\* stop: path_request.path.append(robot.state.location), the second
StopReadAgain ==
    /\ handler.op = "stop" /\ handler.pc = "read_again"
    /\ handler' = [handler EXCEPT
                      !.pc = "publish",
                      !.path = Append(handler.path,
                                      robots[handler.robot_name].state.location)]
    /\ UNCHANGED <<robots, pubs, resp, spinning, cb, window, live_vars,
                   config>>

\* stop: the request is completed and published
StopPublish ==
    /\ handler.op = "stop" /\ handler.pc = "publish"
    /\ LET path_request == PathRequest(handler.robot_name, handler.path,
                                       str(handler.cmd_id))
       IN /\ pubs' = <<Pub(PATH_TOPIC, path_request)>>
          /\ handler' = [handler EXCEPT !.pc = "set_request",
                                        !.path_request = path_request]
    /\ UNCHANGED <<robots, resp, spinning, cb, window, live_vars, config>>

\* stop: robot.last_path_request = path_request
StopSetRequest ==
    /\ handler.op = "stop" /\ handler.pc = "set_request"
    /\ robots' = [robots EXCEPT ![handler.robot_name].last_path_request =
                                    handler.path_request]
    /\ handler' = [handler EXCEPT !.pc = "set_destination"]
    /\ UNCHANGED <<pubs, resp, spinning, cb, window, live_vars, config>>

\* stop: robot.destination = None, and the response
StopSetDestination ==
    /\ handler.op = "stop" /\ handler.pc = "set_destination"
    /\ robots' = [robots EXCEPT ![handler.robot_name].destination = None]
    /\ HandlerReturns(FALSE, TRUE)
    /\ UNCHANGED <<pubs, spinning, cb, window, live_vars, config>>

\* start_activity, the checks of the request
ActivityCheck ==
    \E robot_name \in Roster, cmd_id \in CmdIds :
        /\ HandlerEnters(Call("start_activity", robot_name, cmd_id))
        /\ handler' = [NoHandler EXCEPT
                          !.pc = "read", !.op = "start_activity",
                          !.robot_name = robot_name, !.cmd_id = cmd_id]
        /\ UNCHANGED <<robots, pubs, resp, spinning, cb, live_vars, config>>

\* start_activity: cur_loc = robot.state.location, target_loc = Location()
ActivityRead ==
    /\ handler.op = "start_activity" /\ handler.pc = "read"
    /\ LET robot == robots[handler.robot_name]
       IN IF robot.state = None
          THEN /\ HandlerReturns(TRUE, FALSE)
               /\ pubs' = <<>>
          ELSE /\ handler' = [handler EXCEPT
                                 !.pc = "publish",
                                 !.path = <<robot.state.location>>,
                                 !.target_loc = DefaultLocation]
               /\ UNCHANGED <<pubs, resp>>
    /\ UNCHANGED <<robots, spinning, cb, window, live_vars, config>>

\* start_activity: the waypoints are appended and the request published
ActivityPublish ==
    /\ handler.op = "start_activity" /\ handler.pc = "publish"
    /\ LET activity_path ==
               action_paths[ConcActivity.activity][ConcActivity.label]
           wps == Waypoints(activity_path)
           path_request == PathRequest(handler.robot_name,
                                       handler.path \o wps,
                                       str(handler.cmd_id))
       IN /\ pubs' = <<Pub(PATH_TOPIC, path_request)>>
          /\ handler' = [handler EXCEPT
                            !.pc = "set_request",
                            !.target_loc = IF Len(wps) = 0 THEN @
                                           ELSE wps[Len(wps)],
                            !.path_request = path_request]
    /\ UNCHANGED <<robots, resp, spinning, cb, window, live_vars, config>>

\* start_activity: robot.last_path_request = path_request
ActivitySetRequest ==
    /\ handler.op = "start_activity" /\ handler.pc = "set_request"
    /\ robots' = [robots EXCEPT ![handler.robot_name].last_path_request =
                                    handler.path_request]
    /\ handler' = [handler EXCEPT !.pc = "set_destination"]
    /\ UNCHANGED <<pubs, resp, spinning, cb, window, live_vars, config>>

\* start_activity: robot.destination = target_loc, and the response
ActivitySetDestination ==
    /\ handler.op = "start_activity" /\ handler.pc = "set_destination"
    /\ robots' = [robots EXCEPT ![handler.robot_name].destination =
                                    handler.target_loc]
    /\ HandlerReturns(FALSE, TRUE)
    /\ UNCHANGED <<pubs, spinning, cb, window, live_vars, config>>

ConcNext ==
    \/ CbCheck
    \/ CbRepublish
    \/ CbStore
    \/ CbComplete
    \/ CbRecord
    \/ NavigateCheck
    \/ NavigateRead
    \/ NavigatePublish
    \/ NavigateSetRequest
    \/ NavigateSetDestination
    \/ StopCheck
    \/ StopRead
    \/ StopReadAgain
    \/ StopPublish
    \/ StopSetRequest
    \/ StopSetDestination
    \/ ActivityCheck
    \/ ActivityRead
    \/ ActivityPublish
    \/ ActivitySetRequest
    \/ ActivitySetDestination

SpecConc == Init /\ [][ConcNext]_vars

-----------------------------------------------------------------------------
(* The program with its robots behind a lossy bus.  A request published on *)
(* robot_path_requests is in flight until the bus delivers it to its robot *)
(* or drops it.  A robot reports with the task id of the request it        *)
(* received last, or an empty one if it received none.  No robot is put in *)
(* perform_action_mode.  The bus is a set: equal requests in flight are    *)
(* one.                                                                    *)

\* at most this many commands are dispatched to a robot
MaxDispatch == 2

LiveShapes == {<<MODE_MOVING, <<LocB>>>>, <<MODE_IDLE, <<>>>>}

\* the requests among the messages published
PathRequests(ps) ==
    {ps[i].msg : i \in {j \in 1..Len(ps) : ps[j].topic = PATH_TOPIC}}

\* the id of the command dispatched last to robot n
CurrentId(n) == link[n].dispatched[Len(link[n].dispatched)]

\* A robot sends a RobotState message and robot_state_cb processes it
LiveReport ==
    /\ spinning
    /\ \E n \in Roster, sh \in LiveShapes :
          LET msg == Report(n,
                            IF link[n].received = None THEN <<>>
                            ELSE link[n].received.task_id,
                            sh, LocA)
              accepted == ~out_of_date(robots[n], msg)
              out == robot_state_cb(robots, msg)
          IN /\ robots' = out.robots
             /\ pubs' = out.pubs
             /\ resp' = out.resp
             /\ spinning' = ~out.resp.raised
             /\ bus' = bus \cup PathRequests(out.pubs)
             /\ link' = [link EXCEPT ![n].seen =
                            \/ @
                            \/ /\ accepted
                               /\ Len(link[n].dispatched) > 0
                               /\ msg.task_id = str(CurrentId(n))]
    /\ UNCHANGED <<conc_vars, config>>

\* A handler that dispatches a command with id cmd_id to robot n ran to its
\* end; the request it published is in flight
Dispatch(n, cmd_id, out) ==
    /\ Len(link[n].dispatched) < MaxDispatch
    /\ robots' = out.robots
    /\ pubs' = out.pubs
    /\ resp' = out.resp
    /\ bus' = bus \cup PathRequests(out.pubs)
    /\ link' = IF out.resp.success
               THEN [link EXCEPT
                        ![n].dispatched = Append(@, cmd_id),
                        ![n].lost = FALSE,
                        ![n].got = (link[n].received =
                                        out.robots[n].last_path_request),
                        ![n].seen = FALSE]
               ELSE link
    /\ UNCHANGED <<spinning, conc_vars, config>>

LiveNavigate ==
    \E n \in Roster, cmd_id \in CmdIds :
        Dispatch(n, cmd_id, navigate(robots, n, cmd_id, ConcDestination))

LiveStop ==
    \E n \in Roster, stop_cmd_id \in CmdIds :
        Dispatch(n, stop_cmd_id, stop(robots, n, stop_cmd_id, stop_cmd_id))

\* The bus delivers request m to its robot
Deliver(m) ==
    /\ m \in bus
    /\ bus' = bus \ {m}
    /\ link' = [link EXCEPT
                   ![m.robot_name].received = m,
                   ![m.robot_name].got =
                       @ \/ m = robots[m.robot_name].last_path_request]
    /\ UNCHANGED <<robots, pubs, resp, spinning, conc_vars, config>>

BusDeliver == \E m \in bus : Deliver(m)

\* The bus drops request m
BusDrop ==
    \E m \in bus :
        /\ bus' = bus \ {m}
        /\ link' = [link EXCEPT
                       ![m.robot_name].lost =
                           @ \/ m = robots[m.robot_name].last_path_request]
        /\ UNCHANGED <<robots, pubs, resp, spinning, conc_vars, config>>

\* The bus delivers the request that is some robot's last_path_request
DeliverLatest ==
    \E n \in Roster :
        /\ robots[n].last_path_request # None
        /\ Deliver(robots[n].last_path_request)

LiveNext ==
    \/ LiveReport
    \/ LiveNavigate
    \/ LiveStop
    \/ BusDeliver
    \/ BusDrop

\* Robots keep reporting, and the bus does not drop every copy of a request
\* that is published again and again
SpecLive ==
    /\ Init
    /\ [][LiveNext]_vars
    /\ WF_vars(LiveReport)
    /\ SF_vars(DeliverLatest)

-----------------------------------------------------------------------------
(* The program with two robots in config['rmf_fleet']['robots'], one       *)
(* handler at a time.                                                      *)

Fleet == {"r1", "r2"}

\* the command ids used with two robots
MaxFleetId == 1

FleetIds == 1..MaxFleetId

FleetReports ==
    {Report(n, t, sh, LocA) :
        n \in Fleet, t \in {<<>>} \cup {str(c) : c \in FleetIds},
        sh \in {<<MODE_IDLE, <<>>>>, <<MODE_MOVING, <<LocB>>>>}}

FleetInit ==
    /\ robots = [robot_name \in Fleet |-> State]
    /\ pubs = <<>>
    /\ resp = [op |-> "init", robot |-> "", raised |-> FALSE, success |-> TRUE]
    /\ spinning = TRUE
    /\ cb = NoCallback
    /\ handler = NoHandler
    /\ window = NoWindow
    /\ bus = {}
    /\ link = [robot_name \in Roster |-> NoLink]
    /\ config = PlanarConfig

FleetNavigate ==
    \E n \in Fleet, cmd_id \in FleetIds :
        Handle(navigate(robots, n, cmd_id, ConcDestination))

FleetStop ==
    \E n \in Fleet, stop_cmd_id \in FleetIds :
        Handle(stop(robots, n, stop_cmd_id, stop_cmd_id))

FleetStartActivity ==
    \E n \in Fleet, cmd_id \in FleetIds :
        Handle(start_activity(robots, n, cmd_id, ConcActivity))

FleetToggleAttach ==
    \E n \in Fleet, cmd_id \in FleetIds :
        Handle(toggle_attach(robots, n, cmd_id, [toggle |-> PyBool(TRUE)]))

FleetRobotStateCb ==
    /\ spinning
    /\ \E msg \in FleetReports :
          LET out == robot_state_cb(robots, msg)
          IN /\ robots' = out.robots
             /\ pubs' = out.pubs
             /\ resp' = out.resp
             /\ spinning' = ~out.resp.raised
             /\ UNCHANGED <<conc_vars, live_vars, config>>

FleetNext ==
    \/ FleetNavigate
    \/ FleetStop
    \/ FleetStartActivity
    \/ FleetToggleAttach
    \/ FleetRobotStateCb

SpecFleet == FleetInit /\ [][FleetNext]_vars

-----------------------------------------------------------------------------
(* The program with headings of any size, one handler at a time: a robot   *)
(* reports the yaw it likes, and so does the caller of navigate.           *)

\* headings run from -MaxQuarterTurns to MaxQuarterTurns quarter turns
MaxQuarterTurns == 8

\* two headings ten degrees either side of a half turn
NearHalfTurn == {pi - 10, 10 - pi}

Yaws ==
    {k * (pi \div 2) : k \in (0 - MaxQuarterTurns)..MaxQuarterTurns}
    \cup NearHalfTurn

\* reports of a robot under way at the place of LocB
YawReports ==
    {Report(n, t, <<MODE_MOVING, <<LocB>>>>, Loc(LocB.x, LocB.y, yaw, "L1")) :
        n \in Roster, t \in {<<>>, str(1)}, yaw \in Yaws}

YawRobotStateCb ==
    /\ spinning
    /\ \E msg \in YawReports :
          LET out == robot_state_cb(robots, msg)
          IN /\ robots' = out.robots
             /\ pubs' = out.pubs
             /\ resp' = out.resp
             /\ spinning' = ~out.resp.raised
             /\ UNCHANGED <<conc_vars, live_vars, config>>

YawNavigate ==
    \E n \in Roster, yaw \in Yaws :
        Handle(navigate(robots, n, 1,
                        [map_name |-> "L1",
                         destination |-> [x |-> LocB.x, y |-> LocB.y,
                                          yaw |-> yaw]]))

YawStatus ==
    \E n \in Roster : Handle(status(robots, PyStr(n)))

YawNext ==
    \/ YawRobotStateCb
    \/ YawNavigate
    \/ YawStatus

SpecYaw == Init /\ [][YawNext]_vars

-----------------------------------------------------------------------------
(* The program started with either configuration, one handler at a time;   *)
(* with reference_coordinates it is connected to the /gps socket.          *)

GpsMessages ==
    {[robot_id |-> n, lat |-> lat, lon |-> 1] : n \in Names, lat \in {1, 2}}
    \cup {[lat |-> 1, lon |-> 1], [robot_id |-> "r1", lat |-> 1]}

GpsReports ==
    {Report(n, t, sh, LocA) :
        n \in Roster, t \in {<<>>, str(1)},
        sh \in {<<MODE_WAITING, <<>>>>, <<MODE_MOVING, <<LocB>>>>,
                <<MODE_ACTION_COMPLETED, <<>>>>}}

GpsInit ==
    /\ robots = [robot_name \in Roster |-> State]
    /\ pubs = <<>>
    /\ resp = [op |-> "init", robot |-> "", raised |-> FALSE, success |-> TRUE]
    /\ spinning = TRUE
    /\ cb = NoCallback
    /\ handler = NoHandler
    /\ window = NoWindow
    /\ bus = {}
    /\ link = [robot_name \in Roster |-> NoLink]
    /\ config \in {PlanarConfig, GeodeticConfig}

GpsFix ==
    /\ gps
    /\ \E data \in GpsMessages : Handle(gps_message(robots, data))

GpsRobotStateCb ==
    /\ spinning
    /\ \E msg \in GpsReports :
          LET out == robot_state_cb(robots, msg)
          IN /\ robots' = out.robots
             /\ pubs' = out.pubs
             /\ resp' = out.resp
             /\ spinning' = ~out.resp.raised
             /\ UNCHANGED <<conc_vars, live_vars, config>>

GpsNavigate ==
    \E n \in Roster : Handle(navigate(robots, n, 1, ConcDestination))

GpsStop ==
    \E n \in Roster : Handle(stop(robots, n, 1, 1))

GpsStatus ==
    \E n \in StatusNames : Handle(status(robots, n))

GpsNext ==
    \/ GpsFix
    \/ GpsRobotStateCb
    \/ GpsNavigate
    \/ GpsStop
    \/ GpsStatus

SpecGps == GpsInit /\ [][GpsNext]_vars

-----------------------------------------------------------------------------
(* Properties.  RosterReports are the reports a robot of the table may      *)
(* send; Rec(n) is its record.                                              *)

Rec(n) == robots[n]

RosterReports == {m \in Reports : m.name \in DOMAIN robots}

Dispatches == {"navigate", "stop", "start_activity"}

WriteOps == Dispatches \cup {"toggle_teleop", "toggle_attach"}

\* C1: for a robot whose last_path_request is present and whose
\* perform_action_mode is false, a report whose task id differs from the
\* request's leaves the whole table unchanged and publishes exactly the
\* stored request, once, on the path topic; a report whose task id equals
\* it publishes nothing.
C1_StaleReportRepublishes ==
    \A m \in RosterReports :
        LET robot == Rec(m.name)
            out == robot_state_cb(robots, m)
        IN (robot.last_path_request # None /\ ~Truthy(robot.perform_action_mode))
           => IF m.task_id # robot.last_path_request.task_id
              THEN /\ out.robots = robots
                   /\ out.pubs = <<Pub(PATH_TOPIC, robot.last_path_request)>>
              ELSE out.pubs = <<>>

\* C1 witness: the callback has just answered a report for r1, whose action
\* mode is off, by republishing the stored request.
C1_Witness ==
    /\ resp.op = "robot_state_cb" /\ resp.robot = "r1"
    /\ Rec("r1").last_path_request # None
    /\ ~Truthy(Rec("r1").perform_action_mode)
    /\ pubs = <<Pub(PATH_TOPIC, Rec("r1").last_path_request)>>
    /\ Rec("r1").last_path_request.task_id = str(2)

\* The claim's well-formed numeric id: not empty, decimal digits only
NumericId(t) == isdecimal(t)

\* C2 (as claimed): a report that is not out of date, with mode idle or
\* charging, no remaining path and a numeric id N sets
\* last_completed_request to N and clears destination, and processing it
\* again changes nothing more; a report failing one of the three conditions
\* changes neither last_completed_request nor destination.
C2_CompletionAsClaimed ==
    \A m \in RosterReports :
        LET robot == Rec(m.name)
            out == robot_state_cb(robots, m)
            after == out.robots[m.name]
        IN ~out_of_date(robot, m)
           => IF /\ m.mode \in {MODE_IDLE, MODE_CHARGING}
                 /\ m.path = <<>>
                 /\ NumericId(m.task_id)
              THEN /\ ~out.resp.raised
                   /\ after.last_completed_request = int(m.task_id)
                   /\ after.destination = None
                   /\ robot_state_cb(out.robots, m).robots = out.robots
              ELSE /\ after.last_completed_request = robot.last_completed_request
                   /\ after.destination = robot.destination

\* C3: with a request outstanding, a report carrying its task id and a mode
\* other than idle or charging replaces state with the report, leaves
\* destination, last_path_request and last_completed_request (and the rest
\* of the record) as they were, and publishes nothing.
C3_MatchingReportOnlyUpdatesState ==
    \A m \in RosterReports :
        LET robot == Rec(m.name)
            out == robot_state_cb(robots, m)
        IN (/\ robot.last_path_request # None
            /\ m.task_id = robot.last_path_request.task_id
            /\ m.mode \notin {MODE_IDLE, MODE_CHARGING})
           => /\ out.robots = [robots EXCEPT ![m.name].state = m]
              /\ out.pubs = <<>>
              /\ ~out.resp.raised

\* C3 witness: after a navigate, a report with the request's id and mode
\* moving has been taken in, and the destination is still there.
C3_Witness ==
    /\ resp.op = "robot_state_cb" /\ resp.robot = "r1"
    /\ Rec("r1").last_path_request # None /\ Rec("r1").state # None
    /\ Rec("r1").state.task_id = Rec("r1").last_path_request.task_id
    /\ Rec("r1").state.mode = MODE_MOVING
    /\ Rec("r1").destination # None
    /\ Rec("r1").destination = Rec("r1").last_path_request.path[2]
    /\ Rec("r1").state.location # Rec("r1").last_path_request.path[1]

\* C4 (as claimed): destination goes from present to absent only by a stop
\* dispatch or by a completion report that carries the id of the
\* outstanding last_path_request.
C4_DestinationClearedOnlyByOwnCompletion ==
    [][\A n \in DOMAIN robots :
          (robots[n].destination # None /\ robots'[n].destination = None)
          => \/ resp'.op = "stop" /\ resp'.robot = n /\ resp'.success
             \/ /\ resp'.op = "robot_state_cb" /\ resp'.robot = n
                /\ ~resp'.raised
                /\ robots'[n].state # None
                /\ reports_completion(robots'[n].state)
                /\ robots'[n].state.task_id = robots[n].last_path_request.task_id
      ]_vars

\* C5: whenever one robot_state_cb execution and one navigate, stop or
\* start_activity execution for the same robot have overlapped and both have
\* returned, the table is the one that running the two one after the other,
\* in one order or the other, gives from the table the overlap began with.
C5_InterleavingIsSerialisable ==
    (/\ cb.pc = "idle" /\ handler.pc = "idle"
     /\ window.msg # None /\ window.call # None)
    => \/ robots = RunCall(robot_state_cb(window.pre, window.msg).robots,
                           window.call).robots
       \/ robots = robot_state_cb(RunCall(window.pre, window.call).robots,
                                  window.msg).robots

\* the command dispatched last to robot n has reached it and a report with
\* its id has been stored as robot.state
Delivered(n) == link[n].got /\ link[n].seen

\* the id of the command dispatched last to robot n is the id of no command
\* dispatched to it before
FreshId(n) ==
    \A i \in 1..(Len(link[n].dispatched) - 1) :
        link[n].dispatched[i] # CurrentId(n)

\* C6 as claimed: after the k-th command is dispatched to a robot, either a
\* later command is dispatched to it or the robot eventually receives the
\* k-th command and a report carrying its id is eventually stored.
C6_AtLeastOnce ==
    \A n \in Roster, k \in 1..MaxDispatch :
        (Len(link[n].dispatched) = k)
            ~> (Len(link[n].dispatched) # k \/ Delivered(n))

\* C6: after the k-th command is dispatched to a robot with an id that no
\* earlier command to that robot had, either a later command is dispatched
\* to it or the robot eventually receives the k-th command and a report
\* carrying its id is eventually stored.
C6_AtLeastOnceFreshId ==
    \A n \in Roster, k \in 1..MaxDispatch :
        (Len(link[n].dispatched) = k /\ FreshId(n))
            ~> (Len(link[n].dispatched) # k \/ Delivered(n))

\* a command with a fresh id was dropped by the bus, published again on a
\* report with another id, received, and reported
C6_Witness ==
    \E n \in Roster :
        /\ Len(link[n].dispatched) = MaxDispatch
        /\ FreshId(n)
        /\ link[n].lost
        /\ Delivered(n)
        /\ robots[n].state.task_id = str(CurrentId(n))

\* C7 (as claimed): every write operation for a robot of the roster returns
\* a response and never raises, also before the robot's first report and
\* for a navigate without destination; one that fails publishes nothing.
C7_WriteOpsNeverRaise ==
    (resp.op \in WriteOps /\ resp.robot \in Roster)
    => /\ ~resp.raised
       /\ ~resp.success => pubs = <<>>

\* the operation failed closed: unsuccessful, nothing published, no record
\* changed
FailedClosed(out) ==
    /\ ~out.resp.success /\ ~out.resp.raised
    /\ out.pubs = <<>>
    /\ out.robots = robots

\* C8: every write operation for a name that is not in the table fails
\* closed, and the table's robots are always exactly the roster.
C8_UnknownRobotFailsClosed ==
    /\ DOMAIN robots = Roster
    /\ \A n \in Names \ DOMAIN robots :
          /\ \A c \in CmdIds, d \in FullDestinations \cup BadDestinations :
                FailedClosed(navigate(robots, n, c,
                                      [map_name |-> "L1", destination |-> d]))
          /\ \A c \in CmdIds : FailedClosed(stop(robots, n, c, c))
          /\ \A c \in CmdIds, a \in {"dock", "wash"}, l \in {"a", "b", "c"} :
                FailedClosed(start_activity(robots, n, c,
                                            [activity |-> a, label |-> l]))
          /\ \A t \in Toggles :
                FailedClosed(toggle_teleop(robots, n, [toggle |-> t]))
          /\ \A c \in CmdIds, t \in Toggles :
                FailedClosed(toggle_attach(robots, n, c, [toggle |-> t]))

\* C8 witness: a stop for the unknown name has just failed, in a table
\* that has seen reports and a dispatch.
C8_Witness ==
    /\ resp.op = "stop" /\ resp.robot = "ghost"
    /\ ~resp.success /\ ~resp.raised /\ pubs = <<>>
    /\ Rec("r1").last_path_request # None

\* what a dispatch must leave: the request just published, with id c, as
\* the robot's last_path_request
DispatchedAs(out, n, c) ==
    out.resp.success
    => /\ out.robots[n].last_path_request # None
       /\ out.robots[n].last_path_request.task_id = str(c)
       /\ out.robots[n].last_path_request.robot_name = n
       /\ out.pubs = <<Pub(PATH_TOPIC, out.robots[n].last_path_request)>>

\* C9: a successful navigate, stop or start_activity with id c leaves
\* exactly the request it published, with id c, as last_path_request,
\* whatever the record held before; no other operation changes
\* last_path_request, and every request the callback republishes is the
\* current last_path_request.
C9_LastCommandIsLatestDispatch ==
    /\ \A call \in NavigateCalls :
          DispatchedAs(navigate(robots, call[1], call[2],
                                [map_name |-> "L1", destination |-> call[3]]),
                       call[1], call[2])
    /\ \A call \in StopCalls :
          DispatchedAs(stop(robots, call[1], call[2], call[2]),
                       call[1], call[2])
    /\ \A call \in ActivityCalls :
          DispatchedAs(start_activity(robots, call[1], call[2],
                           [activity |-> call[3][1], label |-> call[3][2]]),
                       call[1], call[2])
    /\ \A m \in RosterReports :
          LET out == robot_state_cb(robots, m)
          IN /\ out.robots[m.name].last_path_request
                    = Rec(m.name).last_path_request
             /\ \A i \in DOMAIN out.pubs :
                    out.pubs[i] = Pub(PATH_TOPIC, Rec(m.name).last_path_request)
    /\ \A n \in Roster :
          /\ \A t \in Toggles :
                toggle_teleop(robots, n, [toggle |-> t]).robots[n].last_path_request
                    = Rec(n).last_path_request
          /\ \A c \in CmdIds, t \in Toggles :
                LET out == toggle_attach(robots, n, c, [toggle |-> t])
                IN /\ out.robots = robots
                   /\ \A i \in DOMAIN out.pubs : out.pubs[i].topic # PATH_TOPIC
    /\ \A n \in StatusNames :
          LET out == status(robots, n)
          IN /\ out.robots = robots
             /\ \A i \in DOMAIN out.pubs : out.pubs[i].topic # PATH_TOPIC

\* C9 witness: request 2 replaced request 1, which the robot still reports,
\* and the callback has just republished request 2.
C9_Witness ==
    /\ resp.op = "robot_state_cb" /\ resp.robot = "r1"
    /\ Rec("r1").last_path_request # None /\ Rec("r1").state # None
    /\ Rec("r1").last_path_request.task_id = str(2)
    /\ Rec("r1").state.task_id = str(1)
    /\ Rec("r1").state.mode = MODE_MOVING
    /\ pubs = <<Pub(PATH_TOPIC, Rec("r1").last_path_request)>>

Range(seq) == {seq[i] : i \in DOMAIN seq}

\* the callback has just taken a report of robot n into its record
Accepted(n) ==
    /\ resp.op = "robot_state_cb" /\ resp.robot = n /\ ~resp.raised
    /\ n \in DOMAIN robots
    /\ Rec(n).state # None
    /\ \A i \in DOMAIN pubs : pubs[i].topic # PATH_TOPIC

\* C10 (as claimed): the callback that takes in a report with mode
\* action-completed publishes the mode request (id 0, idle) and the
\* action-execution notice, and a status read publishes nothing.
C10_ActionCompletedPublishedByCallback ==
    /\ \A n \in Roster :
          (Accepted(n) /\ Rec(n).state.mode = MODE_ACTION_COMPLETED)
          => LET msg == make_mode_request(n, 0, MODE_IDLE, "")
             IN /\ Pub(MODE_TOPIC, msg) \in Range(pubs)
                /\ Pub(NOTICE_TOPIC, msg) \in Range(pubs)
    /\ resp.op = "status" => pubs = <<>>

\* C11: toggle_attach for a robot of the table with id c returns success,
\* leaves the table as it is and publishes one message, on the mode topic:
\* a request to that robot with mode MODE_PERFORMING_ACTION, request id c
\* and action "attach_cart" when toggle is true, "detach_cart" when false.
C11_ToggleAttachPublishesOneModeRequest ==
    \A n \in DOMAIN robots, c \in CmdIds, toggle \in BOOLEAN :
        LET out == toggle_attach(robots, n, c, [toggle |-> PyBool(toggle)])
        IN /\ out.resp.success /\ ~out.resp.raised
           /\ out.robots = robots
           /\ out.pubs =
                  <<[topic |-> "robot_mode_requests",
                     msg |-> [fleet_name |-> fleet_name, robot_name |-> n,
                              mode |-> [mode |-> 10, mode_request_id |-> c,
                                        performing_action |->
                                            IF toggle THEN "attach_cart"
                                            ELSE "detach_cart"]]]>>

\* toggle_attach with toggle false has just published its detach request
C11_Witness ==
    /\ resp.op = "toggle_attach" /\ resp.robot \in Roster /\ resp.success
    /\ Len(pubs) = 1
    /\ pubs[1].topic = MODE_TOPIC
    /\ pubs[1].msg.mode.performing_action = "detach_cart"

\* C12: a record with a destination has a last_path_request.  For a robot
\* to which nothing was dispatched (no last_path_request) and that has
\* reported, a status read returns no destination_arrival, and its replan
\* flag is true exactly when the mode of the stored report is MODE_WAITING
\* or MODE_ADAPTER_ERROR.
C12_NeverCommandedHasNoDestination ==
    \A n \in DOMAIN robots :
        /\ Rec(n).destination # None => Rec(n).last_path_request # None
        /\ (Rec(n).last_path_request = None /\ Rec(n).state # None) =>
              LET out == status(robots, PyStr(n))
              IN /\ out.resp.success
                 /\ out.data.destination_arrival = None
                 /\ out.data.replan = (Rec(n).state.mode \in {4, 8})

\* a robot that was never commanded reported an adapter error, and status
\* was read
C12_Witness ==
    /\ resp.op = "status" /\ resp.robot \in Roster /\ resp.success
    /\ Rec(resp.robot).last_path_request = None
    /\ Rec(resp.robot).state.mode = MODE_ADAPTER_ERROR

\* C13: when stop has run for a robot of the table it has returned success
\* and published one request, on the path topic, with the id of a stop
\* command and a path of two waypoints, both the location of the stored
\* report; the request is the record's last_path_request, the record has no
\* destination and a status read returns no destination_arrival.
C13_StopHoldsPosition ==
    (resp.op = "stop" /\ resp.robot \in DOMAIN robots) =>
        /\ ~resp.raised /\ resp.success
        /\ Len(pubs) = 1
        /\ pubs[1].topic = PATH_TOPIC
        /\ pubs[1].msg.robot_name = resp.robot
        /\ \E s \in CmdIds : pubs[1].msg.task_id = str(s)
        /\ pubs[1].msg.path = <<Rec(resp.robot).state.location,
                                Rec(resp.robot).state.location>>
        /\ Rec(resp.robot).last_path_request = pubs[1].msg
        /\ Rec(resp.robot).destination = None
        /\ status(robots, PyStr(resp.robot)).data.destination_arrival = None

\* C14: when start_activity has returned success for a robot of the table,
\* it has published one request, on the path topic, whose path is the
\* location of the stored report followed by the waypoints of a path of
\* the table in order, and the record's destination is the last waypoint
\* of that path; and a call that names an activity or a label that is not
\* in the table returns failure, publishes nothing and leaves the table.
C14_ActivityDestinationIsLastWaypoint ==
    /\ (resp.op = "start_activity" /\ resp.robot \in DOMAIN robots
                                   /\ resp.success) =>
          \E activity \in DOMAIN action_paths :
              \E label \in DOMAIN action_paths[activity] :
                  LET wps == Waypoints(action_paths[activity][label])
                  IN /\ Len(pubs) = 1
                     /\ pubs[1].topic = PATH_TOPIC
                     /\ pubs[1].msg.path =
                            <<Rec(resp.robot).state.location>> \o wps
                     /\ Len(wps) > 0
                     /\ Rec(resp.robot).destination = wps[Len(wps)]
    /\ \A n \in DOMAIN robots, c \in CmdIds :
          \A request \in {[activity |-> "wash", label |-> "a"],
                          [activity |-> "dock", label |-> "c"]} :
              LET out == start_activity(robots, n, c, request)
              IN /\ ~out.resp.success
                 /\ out.pubs = <<>>
                 /\ out.robots = robots

\* C15: no step replaces a record's last_completed_request by None or by a
\* smaller id.
C15_LastCompletedNeverDecreases ==
    [][\A n \in DOMAIN robots :
          Rec(n).last_completed_request # None =>
              /\ robots'[n].last_completed_request # None
              /\ robots'[n].last_completed_request.int >=
                     Rec(n).last_completed_request.int]_vars

\* C16: a status read of a robot that has reported returns no
\* destination_arrival exactly when the record has no destination; when it
\* returns one, its cmd_id is the id of last_path_request, and its duration
\* is 0 when position and heading of the destination are those of the
\* stored report.
C16_DestinationArrival ==
    \A n \in DOMAIN robots :
        Rec(n).state # None =>
            LET arrival == status(robots, PyStr(n)).data.destination_arrival
                location == Rec(n).state.location
                destination == Rec(n).destination
            IN /\ arrival = None <=> destination = None
               /\ arrival # None =>
                     /\ Rec(n).last_path_request # None
                     /\ str(arrival.cmd_id) = Rec(n).last_path_request.task_id
                     /\ (/\ destination.x = location.x
                         /\ destination.y = location.y
                         /\ destination.yaw = location.yaw)
                        => DurationZero(arrival.duration)

\* status was read while the robot, at a heading that is not 0, stood on
\* the destination of its command
C16_Witness ==
    /\ resp.op = "status" /\ resp.robot \in Roster /\ resp.success
    /\ Rec(resp.robot).destination # None
    /\ Rec(resp.robot).destination = Rec(resp.robot).state.location
    /\ Rec(resp.robot).state.location.yaw # 0

\* C17: while a record's perform_action_mode is true, every report for the
\* robot, whatever its task id, becomes the record's state and publishes
\* nothing; and once toggle_teleop has set the mode to false, a report whose
\* task id differs from last_path_request's leaves the table as it is and
\* publishes that request.
C17_ActionModeSuspendsStaleness ==
    \A n \in DOMAIN robots :
        /\ Truthy(Rec(n).perform_action_mode) =>
              \A msg \in {m \in RosterReports : m.name = n} :
                  LET out == robot_state_cb(robots, msg)
                  IN /\ out.robots[n].state = msg
                     /\ out.pubs = <<>>
        /\ LET off == toggle_teleop(robots, n, [toggle |-> PyBool(FALSE)])
           IN /\ off.resp.success
              /\ off.pubs = <<>>
              /\ off.robots[n].last_path_request # None =>
                    \A msg \in {m \in RosterReports : m.name = n} :
                        msg.task_id # off.robots[n].last_path_request.task_id =>
                            LET out == robot_state_cb(off.robots, msg)
                            IN /\ out.robots = off.robots
                               /\ out.pubs =
                                      <<Pub(PATH_TOPIC,
                                            off.robots[n].last_path_request)>>

\* in action mode, a report with another task id than the command's has
\* been stored
C17_Witness ==
    /\ resp.op = "robot_state_cb" /\ resp.robot \in Roster
    /\ Truthy(Rec(resp.robot).perform_action_mode)
    /\ Rec(resp.robot).last_path_request # None
    /\ Rec(resp.robot).state # None
    /\ Rec(resp.robot).state.task_id
           # Rec(resp.robot).last_path_request.task_id
    /\ pubs = <<>>

\* C18: a handler or a report that names a robot of the table leaves the
\* record of every other robot as it was, and every message it publishes
\* carries that robot's name.
C18_OtherRobotsUntouched ==
    [][resp'.robot \in DOMAIN robots =>
          /\ \A other \in DOMAIN robots \ {resp'.robot} :
                 robots'[other] = robots[other]
          /\ \A i \in 1..Len(pubs') :
                 pubs'[i].msg.robot_name = resp'.robot]_vars

\* a request was published for r2 while r1 had a command and a destination
\* of its own
C18_Witness ==
    /\ DOMAIN robots = Fleet
    /\ resp.robot = "r2"
    /\ resp.op \in Dispatches \cup {"robot_state_cb"}
    /\ Len(pubs) = 1
    /\ robots["r1"].last_path_request # None
    /\ robots["r1"].destination # None
    /\ robots["r1"].state # None

\* C19: toggle_teleop for a robot of the table publishes nothing and leaves
\* state, destination, last_path_request and last_completed_request of its
\* record, and every other record, as they were: only perform_action_mode
\* becomes the toggle.  toggle_attach leaves the whole table as it was and
\* publishes on the mode topic only.
C19_TogglesLeavePathState ==
    \A n \in DOMAIN robots :
        /\ \A toggle \in Toggles :
               LET out == toggle_teleop(robots, n, [toggle |-> toggle])
               IN /\ out.pubs = <<>>
                  /\ out.robots[n].state = Rec(n).state
                  /\ out.robots[n].destination = Rec(n).destination
                  /\ out.robots[n].last_path_request =
                         Rec(n).last_path_request
                  /\ out.robots[n].last_completed_request =
                         Rec(n).last_completed_request
                  /\ out.robots[n].gps_pos = Rec(n).gps_pos
                  /\ out.robots[n].perform_action_mode = toggle
                  /\ \A other \in DOMAIN robots \ {n} :
                         out.robots[other] = robots[other]
        /\ \A toggle \in Toggles, c \in CmdIds :
               LET out == toggle_attach(robots, n, c, [toggle |-> toggle])
               IN /\ out.robots = robots
                  /\ \A i \in 1..Len(out.pubs) :
                         out.pubs[i].topic = "robot_mode_requests"

\* toggle_teleop has run on a record that holds a report, a command, a
\* destination and a completed id
C19_Witness ==
    /\ resp.op = "toggle_teleop" /\ resp.robot \in Roster /\ resp.success
    /\ Rec(resp.robot).state # None
    /\ Rec(resp.robot).last_path_request # None
    /\ Rec(resp.robot).destination # None
    /\ Rec(resp.robot).last_completed_request # None
    /\ Truthy(Rec(resp.robot).perform_action_mode)

\* C20: whatever the heading of the stored report and the heading of the
\* destination, the ori_delta of the arrival a status read returns lies
\* between -pi and pi, and the duration is not negative.
C20_AngleDeltaWithinHalfTurn ==
    \A n \in DOMAIN robots :
        Rec(n).state # None =>
            LET arrival == status(robots, PyStr(n)).data.destination_arrival
            IN arrival # None =>
                   /\ 0 - pi <= arrival.duration.ori_delta
                   /\ arrival.duration.ori_delta <= pi
                   /\ ~DurationNegative(arrival.duration)

\* the robot's stored heading is 170 degrees and its destination's is -170
HeadingsAcrossHalfTurn(n) ==
    /\ Rec(n).state # None
    /\ Rec(n).destination # None
    /\ Rec(n).state.location.yaw = 170
    /\ Rec(n).destination.yaw = 0 - 170

\* C21 as claimed: for a stored heading of 170 degrees and a destination
\* heading of -170 degrees, ori_delta before its corrections is 340
\* degrees.
C21_DeltaIs340BeforeWrap ==
    \A n \in DOMAIN robots :
        HeadingsAcrossHalfTurn(n) =>
            ori_delta_uncorrected(Rec(n).state.location.yaw,
                                  Rec(n).destination.yaw) = 340

\* C21: for a stored heading of 170 degrees and a destination heading of
\* -170 degrees, ori_delta before its corrections is 0, no correction
\* applies, and the arrival a status read returns has an ori_delta of 0.
C21_DeltaIsZeroBeforeWrap ==
    \A n \in DOMAIN robots :
        HeadingsAcrossHalfTurn(n) =>
            /\ ori_delta_uncorrected(Rec(n).state.location.yaw,
                                     Rec(n).destination.yaw) = 0
            /\ status(robots, PyStr(n)).data.destination_arrival
                   .duration.ori_delta = 0

\* status was read for a robot heading 170 degrees whose destination
\* heading is -170 degrees
C21_Witness ==
    /\ resp.op = "status" /\ resp.robot \in Roster /\ resp.success
    /\ HeadingsAcrossHalfTurn(resp.robot)

\* C22: with or without reference_coordinates, a status read, of one robot
\* or of all, leaves the table as it was, gps_pos included, and a second
\* read right after it returns the same success flag and the same data:
\* position, destination_arrival, last_completed_request and replan of
\* every robot read.
C22_StatusReadLeavesRecords ==
    \A name \in StatusNames :
        LET once == status(robots, name)
            twice == status(once.robots, name)
        IN /\ once.robots = robots
           /\ twice.robots = robots
           /\ twice.resp.success = once.resp.success
           /\ twice.data = once.data

\* with reference_coordinates, status was read for a robot that has a
\* destination and a gps fix, so the offset was removed from position
C22_Witness ==
    /\ gps
    /\ resp.op = "status" /\ resp.robot \in Roster /\ resp.success
    /\ Rec(resp.robot).destination # None
    /\ Rec(resp.robot).last_path_request # None
    /\ Rec(resp.robot).gps_pos # <<0, 0>>

====
